---- MODULE Spec2Model ----
(***************************************************************************)
(* A model of toch (github.com/invertedv/toch): the command that loads a   *)
(* delimited or Excel source into a new ClickHouse table.                  *)
(*                                                                         *)
(* Strings of the program are sequences of one-character strings, so that  *)
(* strings.Split, strings.ReplaceAll, strings.ToLower and strconv.ParseInt *)
(* are computed, not assumed.                                              *)
(***************************************************************************)
EXTENDS Integers, Sequences, FiniteSets, TLC

---------------------------------------------------------------------------
(* Bounds of the model.                                                    *)

\* longest -rows / -cols value enumerated
MaxRangeLen == 4
\* most data rows a source holds
MaxRows == 3
\* most cells of one column the type inference counts
MaxCells == 20
\* rows and columns of the sheet a spreadsheet source holds
MaxSheetRows == 6
MaxSheetCols == 3
\* largest -skip the spreadsheet reader is given
MaxSkip == 2
\* longest name toCamel is given
MaxNameLen == 3

---------------------------------------------------------------------------
(* Go's string functions.                                                  *)

UpperLetters == <<"A","B","C","D","E","F","G","H","I","J","K","L","M",
                  "N","O","P","Q","R","S","T","U","V","W","X","Y","Z">>
LowerLetters == <<"a","b","c","d","e","f","g","h","i","j","k","l","m",
                  "n","o","p","q","r","s","t","u","v","w","x","y","z">>

\* unicode.ToLower of one character
ToLowerChar(c) ==
    IF \E k \in 1..26 : UpperLetters[k] = c
    THEN LowerLetters[CHOOSE k \in 1..26 : UpperLetters[k] = c]
    ELSE c

\* strings.ToLower
ToLower(s) == [k \in 1..Len(s) |-> ToLowerChar(s[k])]

\* strings.ReplaceAll(s, ch, "") for a one-character ch
RemoveAll(s, ch) == SelectSeq(s, LAMBDA c : c # ch)

\* strings.Contains(s, ch) for a one-character ch
Contains(s, ch) == \E k \in 1..Len(s) : s[k] = ch

\* strings.Split(s, sep) for a one-character sep: one more piece than there
\* are separators, so Split("", sep) is one empty piece
RECURSIVE Split(_, _)
Split(s, sep) ==
    IF ~Contains(s, sep) THEN <<s>>
    ELSE LET i == CHOOSE k \in 1..Len(s) :
                      s[k] = sep /\ \A j \in 1..(k-1) : s[j] # sep
         IN  <<SubSeq(s, 1, i-1)>> \o Split(SubSeq(s, i+1, Len(s)), sep)

Digits == <<"0","1","2","3","4","5","6","7","8","9">>
IsDigit(c) == \E k \in 1..10 : Digits[k] = c
DigitVal(c) == (CHOOSE k \in 1..10 : Digits[k] = c) - 1

RECURSIVE DigitsVal(_)
DigitsVal(ds) ==
    IF ds = <<>> THEN 0
    ELSE 10 * DigitsVal(SubSeq(ds, 1, Len(ds)-1)) + DigitVal(ds[Len(ds)])

\* strconv.ParseInt(tok, 10, 32): an optional sign and at least one digit.
\* Tokens here have at most 9 digits, so the 32-bit range check never fails.
ParseInt(tok) ==
    LET signed == Len(tok) > 0 /\ tok[1] \in {"+", "-"}
        ds     == IF signed THEN Tail(tok) ELSE tok
        ok     == Len(ds) > 0 /\ \A k \in 1..Len(ds) : IsDigit(ds[k])
    IN  IF ~ok THEN [val |-> 0, err |-> "strconv.ParseInt: invalid syntax"]
        ELSE [val |-> IF signed /\ tok[1] = "-" THEN 0 - DigitsVal(ds)
                      ELSE DigitsVal(ds),
              err |-> "nil"]

---------------------------------------------------------------------------
(* The fixed tables.                                                       *)

\* types of file formats toch handles
types == {<<"t","e","x","t">>, <<"c","s","v">>, <<"x","l","s","x">>, <<"x","l","s">>}
\* reserved field names
reserved == {<<"i","n","d","e","x">>}
\* allowed values for -t
ftypes == {<<"s">>, <<"i">>, <<"d">>, <<"f">>}
\* allowed values for -c and -i
ctypes == {<<"y">>, <<"n">>}

\* isIn's test: the lower-cased needle is in the stack
isIn(needle, stack) == ToLower(needle) \in stack

---------------------------------------------------------------------------
(* flags: the checks of the command line, in the order of the code.        *)

NoErr == "nil"

\* the values flags starts from
flagsZero(a) ==
    [headers |-> <<>>, fieldTypes |-> <<>>, camel |-> FALSE, ignore |-> FALSE,
     quote |-> "", xlArea |-> <<>>, err |-> NoErr, panic |-> FALSE,
     sType |-> a.sType]

\* the loop over ind = 0, 1 that parses r[ind] and c[ind] into xlArea; err is
\* assigned by every ParseInt, also when it succeeds
RECURSIVE parseArea(_, _, _, _)
parseArea(r, c, ind, area) ==
    IF ind > 2 THEN [xlArea |-> area, err |-> NoErr]
    ELSE LET rx == ParseInt(r[ind])
         IN  IF rx.err # NoErr THEN [xlArea |-> area, err |-> rx.err]
             ELSE LET a1 == [area EXCEPT ![ind] = rx.val]
                      cx == ParseInt(c[ind])
                  IN  IF cx.err # NoErr THEN [xlArea |-> a1, err |-> cx.err]
                      ELSE parseArea(r, c, ind + 1, [a1 EXCEPT ![2 + ind] = cx.val])

\* the check of flags that -h and -t, when both are given, have one length
listLengthsDiffer(headers, fieldTypes) ==
    Len(headers) # Len(fieldTypes) /\ Len(headers) > 0 /\ Len(fieldTypes) > 0

flags(a) ==
    LET z  == flagsZero(a)
        sT == ToLower(a.sType)
        cL == ToLower(a.c)
        iL == ToLower(a.i)
    IN
    IF ~isIn(a.sType, types)
    THEN [z EXCEPT !.sType = sT, !.err = "unrecognized source type"]
    ELSE IF ~isIn(a.c, ctypes)
    THEN [z EXCEPT !.sType = sT, !.err = "-c option is Y or N"]
    ELSE IF ~isIn(a.i, ctypes)
    THEN [z EXCEPT !.sType = sT, !.camel = (cL = <<"y">>), !.err = "-c option is Y or N"]
    ELSE
    LET z1 == [z EXCEPT !.sType = sT, !.camel = (cL = <<"y">>), !.ignore = (iL = <<"y">>)]
        \* err is set for a long -q, and flags goes on
        qErr == IF Len(a.q) > 1 THEN "-q option is a single character" ELSE NoErr
    IN
    \* (*quotePtr)[0] of an empty string: index out of range
    IF Len(a.q) = 0 THEN [z1 EXCEPT !.err = qErr, !.panic = TRUE]
    ELSE
    LET headers == IF a.h # <<>>
                   THEN Split(RemoveAll(RemoveAll(a.h, " "), "'"), ",")
                   ELSE <<>>
        fieldTypes == IF a.t # <<>>
                      THEN Split(RemoveAll(ToLower(RemoveAll(a.t, " ")), "'"), ",")
                      ELSE <<>>
        z2 == [z1 EXCEPT !.err = qErr, !.quote = a.q[1], !.headers = headers,
                         !.fieldTypes = fieldTypes]
    IN
    IF \E k \in 1..Len(fieldTypes) : ~isIn(fieldTypes[k], ftypes)
    THEN [z2 EXCEPT !.err = "not a valid field type"]
    ELSE IF listLengthsDiffer(headers, fieldTypes)
    THEN [z2 EXCEPT !.err = "-h headers and -t field types must have same length"]
    ELSE IF a.skip < 0
    THEN [z2 EXCEPT !.err = "-skip value must be non-negative"]
    ELSE IF ~Contains(a.rows, ":") \/ ~Contains(a.cols, ":")
    THEN [z2 EXCEPT !.err = "invalid XL rows/cols specs"]
    ELSE LET p == parseArea(Split(a.rows, ":"), Split(a.cols, ":"), 1, <<0, 0, 0, 0>>)
         IN  [z2 EXCEPT !.xlArea = p.xlArea, !.err = p.err]


---------------------------------------------------------------------------
(* toCamel and the per-type sentinels of buildReader.                      *)

ToUpperChar(c) ==
    IF \E k \in 1..26 : LowerLetters[k] = c
    THEN UpperLetters[CHOOSE k \in 1..26 : LowerLetters[k] = c]
    ELSE c

\* strings.ReplaceAll(s, " ", "_")
SpacesToUnderscores(s) == [k \in 1..Len(s) |-> IF s[k] = " " THEN "_" ELSE s[k]]

\* strings.IndexAny(s, "._"), 1-based; 0 when there is none
IndexAnySep(s) ==
    IF \E k \in 1..Len(s) : s[k] \in {".", "_"}
    THEN CHOOSE k \in 1..Len(s) :
             s[k] \in {".", "_"} /\ \A j \in 1..(k-1) : s[j] \notin {".", "_"}
    ELSE 0

\* the loop of toCamel: the separator and the character after it are replaced
\* by that character in upper case; snake[ind:ind+2] is out of range when the
\* separator is the last character
RECURSIVE toCamelLoop(_)
toCamelLoop(snake) ==
    LET ind == IndexAnySep(snake)
    IN  IF ind = 0 THEN [name |-> snake, panic |-> FALSE]
        ELSE IF ind + 1 > Len(snake) THEN [name |-> snake, panic |-> TRUE]
        ELSE toCamelLoop(SubSeq(snake, 1, ind - 1)
                         \o <<ToUpperChar(snake[ind + 1])>>
                         \o SubSeq(snake, ind + 2, Len(snake)))

\* toCamel converts from snake case to camel case
toCamel(snake) == toCamelLoop(ToLower(SpacesToUnderscores(snake)))

\* the sentinel (FieldDef.Missing) the type inference gives a column of each
\* base type
ImputeSentinel(base) ==
    CASE base = "ChDate"   -> "1970-01-01"
      [] base = "ChInt"    -> "9223372036854775807"
      [] base = "ChFloat"  -> "MaxFloat64"
      [] base = "ChString" -> "!"
      [] OTHER             -> "unset"

\* a changed switch that fills an Int64 column with the largest Int32
SuppliedType_Int32(tok) ==
    CASE tok = <<"d">> -> [base |-> "ChDate",   missing |-> "1970-01-01"]
      [] tok = <<"i">> -> [base |-> "ChInt",    missing |-> "2147483647"]
      [] tok = <<"f">> -> [base |-> "ChFloat",  missing |-> "MaxFloat64"]
      [] OTHER         -> [base |-> "ChString", missing |-> "!"]

\* the switch of buildReader over a supplied type token
SuppliedType(tok) ==
    CASE tok = <<"d">> -> [base |-> "ChDate",   missing |-> "1970-01-01"]
      [] tok = <<"i">> -> [base |-> "ChInt",    missing |-> "9223372036854775807"]
      [] tok = <<"f">> -> [base |-> "ChFloat",  missing |-> "MaxFloat64"]
      [] OTHER         -> [base |-> "ChString", missing |-> "!"]

---------------------------------------------------------------------------
(* NewReader, newHttp, newFile and getDir.  The outcomes of the calls that  *)
(* leave the program (http.Get, ioutil.ReadAll, os.Create, os.Open, the     *)
(* converter, excelize) are given by env.                                   *)

\* s[i..] starts with sub
HasPrefixAt(s, sub, i) ==
    /\ i + Len(sub) - 1 <= Len(s)
    /\ SubSeq(s, i, i + Len(sub) - 1) = sub

\* strings.Index(s, sub), 1-based; 0 when sub does not occur
Index(s, sub) ==
    IF \E i \in 1..Len(s) : HasPrefixAt(s, sub, i)
    THEN CHOOSE i \in 1..Len(s) :
             HasPrefixAt(s, sub, i) /\ \A j \in 1..(i-1) : ~HasPrefixAt(s, sub, j)
    ELSE 0

\* strings.LastIndex(s, ch) for a one-character ch, 1-based; 0 when absent
LastIndex(s, ch) ==
    IF Contains(s, ch)
    THEN CHOOSE i \in 1..Len(s) : s[i] = ch /\ \A j \in (i+1)..Len(s) : s[j] # ch
    ELSE 0

\* strings.Replace(s, old, new, 1)
ReplaceFirst(s, old, new) ==
    LET i == Index(s, old)
    IN  IF i = 0 THEN s
        ELSE SubSeq(s, 1, i - 1) \o new \o SubSeq(s, i + Len(old), Len(s))

dotXls  == <<".","x","l","s">>
dotXlsx == <<".","x","l","s","x">>
http    == <<"h","t","t","p">>
tmpXls  == <<"/","t","m","p","/","t","m","p",".","x","l","s">>

\* getDir returns the directory portion of a file path: the path up to its
\* last "/", and the whole path when that "/" is the first character or
\* there is none
getDir(path) ==
    LET ind == LastIndex(path, "/")
    IN  IF ind > 1 THEN SubSeq(path, 1, ind - 1) ELSE path

\* the source is a URL http.Get can fetch: its scheme is http or https
IsHttpURL(source) ==
    \/ HasPrefixAt(ToLower(source), http \o <<":","/","/">>, 1)
    \/ HasPrefixAt(ToLower(source), http \o <<"s",":","/","/">>, 1)

\* the test of NewReader: the lower-cased source contains "http"
UsesHttp(source) == Index(ToLower(source), http) > 0

\* what NewReader returns when it fails: an error, no reader, and the
\* handles it opened and did not close
ReaderError(err, route, leaked) ==
    [ok |-> FALSE, err |-> err, route |-> route, kind |-> "none",
     given |-> <<>>, opened |-> <<>>, outdir |-> <<>>, converted |-> FALSE,
     held |-> {}, leaked |-> leaked]

\* newFile creates a reader for data coming from a file.  The handle f of
\* os.Open is given to file.NewReader for text and csv; in the xlsx and xls
\* branch nothing closes it and nothing receives it.
newFile(source, sType, env, route, leaked) ==
    IF ~env.open THEN ReaderError("os.Open", route, leaked)
    ELSE IF sType \in {<<"t","e","x","t">>, <<"c","s","v">>}
    THEN [ok |-> TRUE, err |-> NoErr, route |-> route, kind |-> "file",
          given |-> source, opened |-> source, outdir |-> <<>>, converted |-> FALSE,
          held |-> {"file"}, leaked |-> leaked]
    ELSE IF sType \in {<<"x","l","s","x">>, <<"x","l","s">>}
    THEN LET xls  == sType = <<"x","l","s">>
             dir  == IF xls THEN getDir(source) ELSE <<>>
             book == IF xls THEN ReplaceFirst(source, dotXls, dotXlsx) ELSE source
         IN  IF xls /\ ~env.convert
             THEN ReaderError("libreoffice", route, leaked \cup {"file"})
             ELSE IF ~env.openBook
             THEN ReaderError("excelize.OpenFile", route, leaked \cup {"file"})
             ELSE [ok |-> TRUE, err |-> NoErr, route |-> route, kind |-> "xl",
                   given |-> source, opened |-> book, outdir |-> dir, converted |-> xls,
                   held |-> {}, leaked |-> leaked \cup {"file"}]
    ELSE ReaderError("illegal -type", route, leaked \cup {"file"})

\* newHttp creates a reader for data coming via http.  http.Get fails for a
\* source that is no http or https URL; resp.Body is closed on no path.
newHttp(source, sType, env) ==
    IF ~IsHttpURL(source) \/ ~env.get THEN ReaderError("http.Get", "http", {})
    ELSE IF ~env.readAll THEN ReaderError("ioutil.ReadAll", "http", {"body"})
    ELSE IF sType \in {<<"t","e","x","t">>, <<"c","s","v">>}
    THEN [ok |-> TRUE, err |-> NoErr, route |-> "http", kind |-> "str",
          given |-> source, opened |-> source, outdir |-> <<>>, converted |-> FALSE,
          held |-> {}, leaked |-> {"body"}]
    ELSE IF sType = <<"x","l","s","x">>
    THEN IF ~env.openBook
         THEN ReaderError("excelize.OpenReader", "http", {"body"})
         ELSE [ok |-> TRUE, err |-> NoErr, route |-> "http", kind |-> "xl",
               given |-> source, opened |-> source, outdir |-> <<>>, converted |-> FALSE,
               held |-> {}, leaked |-> {"body"}]
    ELSE IF sType = <<"x","l","s">>
    THEN CASE env.tmp = "createFails" -> ReaderError("os.Create", "http", {"body"})
           [] env.tmp = "writeFails"  -> ReaderError("f.Write", "http", {"body", "tmp"})
           [] env.tmp = "closeFails"  -> ReaderError("f.Close", "http", {"body"})
           [] OTHER -> newFile(tmpXls, sType, env, "http", {"body"})
    ELSE ReaderError("illegal -type", "http", {"body"})

\* NewReader creates the appropriate kind of reader
NewReader(source, sType, env) ==
    IF UsesHttp(source) THEN newHttp(source, sType, env)
    ELSE newFile(source, sType, env, "file", {})

---------------------------------------------------------------------------
(* The command lines explored.                                             *)

sCsv  == <<"c","s","v">>
sXLSX == <<"X","L","S","X">>
sJson == <<"j","s","o","n">>
sOkRange == <<"0",":","0">>
nA     == <<"a">>
nIndex == <<"I","n","d","e","x">>
nSnake == <<"a","_","b">>
nDot   == <<"a",".","b">>
nTrail == <<"a","b","c","_">>
nIndex1 == <<"I","n","d","e","x","1">>
\* sources: a local path, a URL, a local path with "http" in it, and xls
\* paths with a directory, without one, in the root, and with ".xls" twice
sLocal    == <<"d","/","f">>
sUrl      == <<"h","t","t","p",":","/","/","h","/","f">>
sHttpPath == <<"/","d","/","h","t","t","p">>
sXlsDir   == <<"d","/","f",".","x","l","s">>
sXlsBare  == <<"f",".","x","l","s">>
sXlsRoot  == <<"/","f",".","x","l","s">>
sXlsTwice == <<"d",".","x","l","s","/","f",".","x","l","s">>

\* the defaults of main, with the required -type given
DefaultArgs ==
    [sType |-> sCsv, c |-> <<"N">>, i |-> <<"N">>, q |-> <<"\"">>, h |-> <<>>,
     t |-> <<>>, skip |-> 0, rows |-> sOkRange, cols |-> sOkRange, s |-> sLocal]

STypeVals == {sCsv, sXLSX, sJson, <<>>}
YNVals    == {<<"N">>, <<"y">>, <<"Y">>, <<"x">>}
QVals     == {<<"\"">>, <<"a","b">>, <<>>}
HVals     == {<<>>, <<"a">>, <<"a",",","b">>, <<"'","a",","," ","b",",","c","'">>,
              <<"a",",","a">>, <<"a",",",",","b">>}
SourceVals == {sLocal, sUrl, sHttpPath, sXlsDir, sXlsBare, sXlsRoot, sXlsTwice}
TVals     == {<<>>, <<"i">>, <<"S",",","d">>, <<"'","f",","," ","i","'">>,
              <<"i",",","s",",","d">>, <<"x">>, <<"i",",",",","s">>}
SkipVals  == {-1, 0, 1}
RangeChars == {"1", ":", "a"}
RangeStrs == UNION {[1..n -> RangeChars] : n \in 0..MaxRangeLen}

ArgSpace ==
       {[DefaultArgs EXCEPT !.sType = st, !.c = c, !.i = i, !.q = q] :
            st \in STypeVals, c \in YNVals, i \in YNVals, q \in QVals}
  \cup {[DefaultArgs EXCEPT !.q = q, !.h = h, !.t = t, !.skip = k] :
            q \in QVals, h \in HVals, t \in TVals, k \in SkipVals}
  \cup {[DefaultArgs EXCEPT !.q = q, !.rows = r] :
            q \in {<<"\"">>, <<"a","b">>}, r \in RangeStrs}
  \cup {[DefaultArgs EXCEPT !.q = q, !.cols = r] :
            q \in {<<"\"">>, <<"a","b">>}, r \in RangeStrs}
  \cup {[DefaultArgs EXCEPT !.s = src, !.sType = st] :
            src \in SourceVals, st \in {sCsv, sXLSX, <<"x","l","s">>}}

\* the header rows a source may start with
HeaderRowVals ==
    {<<nA>>, <<nIndex, nA>>, <<nSnake, nDot>>, <<nTrail>>, <<nA, nA>>,
     <<nIndex, nIndex1>>}

\* the widths a source may have
SourceWidths == {Len(h) : h \in HeaderRowVals}

\* the outcomes of the calls NewReader makes outside the program
EnvVals ==
    [get : BOOLEAN, readAll : BOOLEAN,
     tmp : {"ok", "createFails", "writeFails", "closeFails"},
     open : BOOLEAN, convert : BOOLEAN, openBook : BOOLEAN]

Bases == {"ChDate", "ChInt", "ChFloat", "ChString"}

---------------------------------------------------------------------------
(* chutils.Export: rows are buffered into batches of `after` rows (0: one  *)
(* single batch); a full batch is written, then the partial final batch.   *)
(* failAt is the number of the write the destination fails (0: none).      *)

\* the batch size main passes to Export
BatchSize == 1000
\* the batch size the earlier revision of main passes
LegacyBatchSize == 0

RowIds(n) == [k \in 1..n |-> k]

ExportStart(rows, after, failAt) ==
    [rows |-> rows, pos |-> 0, batch |-> <<>>, dest |-> <<>>, flushes |-> <<>>,
     after |-> after, failAt |-> failAt, status |-> "running"]

ExportIdle == [ExportStart(<<>>, 0, 0) EXCEPT !.status = "idle"]

ExCanRead(e) ==
    /\ e.status = "running"
    /\ e.pos < Len(e.rows)
    /\ (e.after = 0 \/ Len(e.batch) < e.after)

ExRead(e) == [e EXCEPT !.batch = Append(@, e.rows[e.pos + 1]), !.pos = @ + 1]

ExCanFlush(e) ==
    /\ e.status = "running"
    /\ e.after > 0
    /\ Len(e.batch) = e.after

\* one write of the batch to the destination
ExWrite(e, atEnd) ==
    IF e.failAt = Len(e.flushes) + 1
    THEN [e EXCEPT !.status = "failed"]
    ELSE [e EXCEPT !.dest = @ \o e.batch,
                   !.flushes = Append(@, [batch |-> e.batch, atEnd |-> atEnd]),
                   !.batch = <<>>]

ExFlush(e) == ExWrite(e, FALSE)

ExCanFinish(e) ==
    /\ e.status = "running"
    /\ e.pos = Len(e.rows)
    /\ ~ExCanFlush(e)

\* a changed Export that forgets the partial final batch
ExFinish_DropPartial(e) == [e EXCEPT !.status = "ok"]

ExFinish(e) ==
    LET w == IF e.batch = <<>> THEN e ELSE ExWrite(e, TRUE)
    IN  IF w.status = "failed" THEN w ELSE [w EXCEPT !.status = "ok"]

\* Export from its call to its return
RECURSIVE ExportRun(_)
ExportRun(e) ==
    IF ExCanFlush(e) THEN ExportRun(ExFlush(e))
    ELSE IF ExCanRead(e) THEN ExportRun(ExRead(e))
    ELSE IF ExCanFinish(e) THEN ExportRun(ExFinish(e))
    ELSE e

---------------------------------------------------------------------------
(* TableDef.Impute and the coercion of cells.  A cell is one of six kinds  *)
(* by what it parses as: E empty, DI a date and an integer (20230101),     *)
(* D a date only, I an integer, F a float only, S a string only.           *)

CellKinds == {"E", "DI", "D", "I", "F", "S"}

\* the cell parses as a value of the base type
Parses(cell, base) ==
    CASE base = "ChDate"   -> cell \in {"DI", "D"}
      [] base = "ChInt"    -> cell \in {"DI", "I"}
      [] base = "ChFloat"  -> cell \in {"DI", "I", "F"}
      [] base = "ChString" -> cell # "E"
      [] OTHER             -> FALSE

\* a changed buildReader that passes the threshold 0.90
imputeTol_Low == [num |-> 90, den |-> 100]

\* the acceptance threshold buildReader passes to Impute: 0.95
imputeTol == [num |-> 95, den |-> 100]

\* a changed threshold test that wants more than the threshold
meets_Strict(k, n, num, den) == n > 0 /\ den * k > num * n

\* k of n non-empty values parse: the fraction reaches the threshold
meets(k, n, num, den) == n > 0 /\ den * k >= num * n

\* a column by the number of its cells of each kind
NonEmpty(col) == col.di + col.d + col.i + col.f + col.s
Dates(col)    == col.di + col.d
Ints(col)     == col.di + col.i
Floats(col)   == col.di + col.i + col.f

\* a changed inference that tries Int64 before Date
findType_IntFirst(col, num, den) ==
    LET n == NonEmpty(col)
    IN  IF meets(Ints(col), n, num, den) THEN "ChInt"
        ELSE IF meets(Dates(col), n, num, den) THEN "ChDate"
        ELSE IF meets(Floats(col), n, num, den) THEN "ChFloat"
        ELSE "ChString"

\* the type of a column: the first of Date, Int64, Float64 that reaches the
\* threshold, else String
findType(col, num, den) ==
    LET n == NonEmpty(col)
    IN  IF meets(Dates(col), n, num, den) THEN "ChDate"
        ELSE IF meets(Ints(col), n, num, den) THEN "ChInt"
        ELSE IF meets(Floats(col), n, num, den) THEN "ChFloat"
        ELSE "ChString"

Column(e, di, d, i, f, s) == [e |-> e, di |-> di, d |-> d, i |-> i, f |-> f, s |-> s]

\* columns of a thousand cells, 94.9% and 95.0% of them integers
BoundaryColumns ==
    {Column(0, 0, 0, 949, 0, 51), Column(0, 0, 0, 950, 0, 50),
     Column(0, 949, 0, 0, 0, 51), Column(0, 950, 0, 0, 0, 50)}

ImputeIdle == [col |-> Column(0, 0, 0, 0, 0, 0), base |-> "idle", missing |-> "unset"]

\* the value a cell becomes in a column: the parsed value, or the sentinel
\* of the column when the cell is empty or does not parse
CoerceCell(cell, fd) ==
    IF cell = "E" \/ ~Parses(cell, fd.base) THEN fd.missing
    ELSE <<fd.base, cell>>

CoerceRow(row, schema) == [k \in 1..Len(row) |-> CoerceCell(row[k], schema[k])]

\* a field as buildReader types it from a -t token
SuppliedField(tok) ==
    [origin |-> "supplied", base |-> SuppliedType(tok).base,
     missing |-> SuppliedType(tok).missing]
\* a field as the inference types it
ImputedField(base) ==
    [origin |-> "inferred", base |-> base, missing |-> ImputeSentinel(base)]

FieldVals == {SuppliedField(tok) : tok \in ftypes} \cup {ImputedField(b) : b \in Bases}

CoerceIdle == [schema |-> <<>>, row |-> <<>>, out |-> <<>>, done |-> FALSE]

---------------------------------------------------------------------------
(* The spreadsheet reader (chutils str.NewXlReader): the rows of the sheet  *)
(* inside the row and column range, an end of 0 meaning the last populated  *)
(* row or column, less the first skip rows of the range.  Rows and columns  *)
(* are numbered from 0 and a cell is <<row, column>>.                       *)

\* the rows the reader is to skip: the header row too when Init reads it
readerSkip(headers, skip) == IF Len(headers) = 0 THEN skip + 1 ELSE skip

\* a changed newFile that passes the column range first
XlArgs_ColsFirst(xlArea) ==
    [rowS |-> xlArea[3], rowE |-> xlArea[4], colS |-> xlArea[1], colE |-> xlArea[2]]

\* the range as newFile and newHttp pass it: xl[0], xl[1], xl[2], xl[3]
XlArgs(xlArea) ==
    [rowS |-> xlArea[1], rowE |-> xlArea[2], colS |-> xlArea[3], colE |-> xlArea[4]]

LastOf(end, n) == IF end = 0 \/ end > n - 1 THEN n - 1 ELSE end

\* the rows the reader delivers
XlRows(nRows, nCols, r, skip) ==
    LET first == r.rowS + skip
        last  == LastOf(r.rowE, nRows)
        lastC == LastOf(r.colE, nCols)
    IN  [i \in 1..(IF last >= first THEN last - first + 1 ELSE 0) |->
            [j \in 1..(IF lastC >= r.colS THEN lastC - r.colS + 1 ELSE 0) |->
                <<first + i - 1, r.colS + j - 1>>]]

\* the rows a run with the command line a reads from the sheet
XlData(a) ==
    LET f == flags(a)
    IN  XlRows(MaxSheetRows, MaxSheetCols, XlArgs(f.xlArea),
               readerSkip(f.headers, a.skip))

\* strconv.Itoa for a natural number
RECURSIVE NatStr(_)
NatStr(n) ==
    IF n < 10 THEN <<Digits[n + 1]>>
    ELSE NatStr(n \div 10) \o <<Digits[(n % 10) + 1]>>

\* the value S:E of -rows or -cols
RangeArg(S, E) == NatStr(S) \o <<":">> \o NatStr(E)

---------------------------------------------------------------------------
(* The state.                                                              *)

VARIABLES
    pc,            \* where main (or buildReader, called by main) stands
    args,          \* the command line
    fl,            \* what flags returned
    steps,         \* the steps taken so far, in order
    rdr,           \* the reader buildReader works on
    tableCreated,  \* the destination table exists
    ex,            \* the export
    im,            \* a column under type inference
    co,            \* a row under coercion
    open,          \* what the process has opened and not closed
    cm,            \* a name under toCamel
    xl             \* a sheet under the spreadsheet reader

vars == <<pc, args, fl, steps, rdr, tableCreated, ex, im, co, open, cm, xl>>

\* no reader yet: nr is what NewReader returned, width the number of cells
\* of the source's rows, header the row Init read the names from
NoReader ==
    [skip |-> -1, fieldDefs |-> <<>>, key |-> <<>>, width |-> 0, header |-> <<>>,
     nr |-> ReaderError(NoErr, "none", {})]

CamelIdle == [snake |-> <<>>, name |-> <<>>, panic |-> FALSE, done |-> FALSE]

XlIdle == [a |-> DefaultArgs, b |-> DefaultArgs, rowsA |-> <<>>, rowsB |-> <<>>,
           done |-> FALSE]

Init ==
    /\ pc = "main"
    /\ args \in ArgSpace
    /\ fl = flagsZero(args)
    /\ steps = <<>>
    /\ rdr = NoReader
    /\ tableCreated = FALSE
    /\ ex = ExportIdle
    /\ im = ImputeIdle
    /\ co = CoerceIdle
    /\ open = {}
    /\ cm = CamelIdle
    /\ xl = XlIdle

---------------------------------------------------------------------------
(* main and buildReader.                                                   *)

\* main: flags; an error prints the help and ends the run
MainFlags ==
    /\ pc = "main"
    /\ fl' = flags(args)
    /\ steps' = Append(steps, "flags")
    /\ pc' = IF fl'.panic THEN "panic"
             ELSE IF fl'.err # NoErr THEN "fatal"
             ELSE "connect"
    /\ UNCHANGED <<args, rdr, tableCreated, ex, im, co, open, cm, xl>>

\* main: chutils.NewConnect
MainConnect ==
    /\ pc = "connect"
    /\ steps' = Append(steps, "connect")
    /\ \E ok \in BOOLEAN :
          /\ pc' = IF ok THEN "newReader" ELSE "fatal"
          /\ open' = IF ok THEN open \cup {"con"} ELSE open
    /\ UNCHANGED <<args, fl, rdr, tableCreated, ex, im, co, cm, xl>>

\* buildReader: the header row is one more row to skip; NewReader
BuildNewReader ==
    /\ pc = "newReader"
    /\ steps' = Append(steps, "resolve")
    /\ LET skip == readerSkip(fl.headers, args.skip)
       IN  \E env \in EnvVals, w \in SourceWidths :
               LET r == NewReader(args.s, fl.sType, env)
               IN  IF r.ok
                   THEN /\ rdr' = [NoReader EXCEPT !.skip = skip, !.nr = r, !.width = w]
                        /\ open' = open \cup {"reader"} \cup r.held \cup r.leaked
                        /\ pc' = "headers"
                   ELSE /\ rdr' = [NoReader EXCEPT !.nr = r]
                        /\ open' = open \cup r.leaked
                        /\ pc' = "fatal"
    /\ UNCHANGED <<args, fl, tableCreated, ex, im, co, cm, xl>>

\* the loop as the earlier revision has it: isIn is called with toLower
\* true and writes the lower-cased name back to the field
HeaderName_Lowered(name, camel) ==
    LET c == IF camel THEN toCamel(name) ELSE [name |-> name, panic |-> FALSE]
        l == ToLower(c.name)
    IN  [name  |-> IF isIn(c.name, reserved) THEN l \o <<"1">> ELSE l,
         panic |-> c.panic]

\* the loop of buildReader over the fields read from the header row
HeaderName(name, camel) ==
    LET c == IF camel THEN toCamel(name) ELSE [name |-> name, panic |-> FALSE]
    IN  [name  |-> IF isIn(c.name, reserved) THEN c.name \o <<"1">> ELSE c.name,
         panic |-> c.panic]

UnknownField(name) == [name |-> name, base |-> "ChUnknown", missing |-> "unset"]

\* buildReader: the names, read from the header row or supplied with -h
BuildHeaders ==
    /\ pc = "headers"
    /\ steps' = Append(steps, "header")
    /\ IF Len(fl.headers) = 0
       THEN \E ok \in BOOLEAN :
              IF ~ok
              THEN rdr' = rdr /\ pc' = "fatal"
              ELSE \E hdr \in {h \in HeaderRowVals : Len(h) = rdr.width} :
                     LET hn == [k \in 1..Len(hdr) |-> HeaderName(hdr[k], fl.camel)]
                     IN  IF \E k \in 1..Len(hdr) : hn[k].panic
                         THEN rdr' = rdr /\ pc' = "panic"
                         ELSE /\ rdr' = [rdr EXCEPT
                                    !.fieldDefs = [k \in 1..Len(hdr) |-> UnknownField(hn[k].name)],
                                    !.key = hn[1].name,
                                    !.header = hdr]
                              /\ pc' = "types"
       ELSE /\ rdr' = [rdr EXCEPT
                  !.fieldDefs = [k \in 1..Len(fl.headers) |-> UnknownField(fl.headers[k])],
                  !.key = fl.headers[1]]
            /\ pc' = "types"
    \* a panic in toCamel unwinds through main and runs its deferred con.Close
    /\ open' = IF pc' = "panic" THEN open \ {"con"} ELSE open
    /\ UNCHANGED <<args, fl, tableCreated, ex, im, co, cm, xl>>

\* buildReader: the types, inferred by Impute or supplied with -t
BuildTypes ==
    /\ pc = "types"
    /\ steps' = Append(steps, "types")
    /\ IF Len(fl.fieldTypes) = 0
       \* Impute reads the rows: it may fail, and it fails on rows that have
       \* not one cell per field
       THEN \E ok \in IF Len(rdr.fieldDefs) = rdr.width THEN BOOLEAN ELSE {FALSE} :
              IF ~ok
              THEN rdr' = rdr /\ pc' = "fatal"
              ELSE /\ \E bs \in [1..Len(rdr.fieldDefs) -> Bases] :
                        rdr' = [rdr EXCEPT !.fieldDefs =
                                   [k \in 1..Len(rdr.fieldDefs) |->
                                       [rdr.fieldDefs[k] EXCEPT
                                           !.base = bs[k],
                                           !.missing = ImputeSentinel(bs[k])]]]
                   /\ pc' = "create"
       ELSE IF Len(fl.fieldTypes) # Len(rdr.fieldDefs)
       THEN rdr' = rdr /\ pc' = "fatal"
       ELSE /\ rdr' = [rdr EXCEPT !.fieldDefs =
                          [k \in 1..Len(rdr.fieldDefs) |->
                              [rdr.fieldDefs[k] EXCEPT
                                  !.base = SuppliedType(fl.fieldTypes[k]).base,
                                  !.missing = SuppliedType(fl.fieldTypes[k]).missing]]]
            /\ pc' = "create"
    /\ UNCHANGED <<args, fl, tableCreated, ex, im, co, open, cm, xl>>

\* a changed buildReader that goes on when Create fails
BuildCreate_IgnoreError ==
    /\ pc = "create"
    /\ steps' = Append(steps, "create")
    /\ \E ok \in BOOLEAN :
          /\ tableCreated' = ok
          /\ pc' = "export"
    /\ UNCHANGED <<args, fl, rdr, ex, im, co, open, cm, xl>>

\* buildReader: TableSpec().Create; an error returns no reader
BuildCreate ==
    /\ pc = "create"
    /\ steps' = Append(steps, "create")
    /\ \E ok \in BOOLEAN :
          /\ tableCreated' = ok
          /\ pc' = IF ok THEN "export" ELSE "fatal"
    /\ UNCHANGED <<args, fl, rdr, ex, im, co, open, cm, xl>>

\* main: the writer, and Export of the rows the reader delivers
MainExport ==
    /\ pc = "export"
    /\ steps' = Append(steps, "export")
    /\ \E n \in 0..MaxRows, failAt \in 0..1 :
          ex' = ExportRun(ExportStart(RowIds(n), BatchSize, failAt))
    /\ pc' = IF ex'.status = "ok" THEN "done" ELSE "fatal"
    \* sql.NewWriter; main returns through its deferred Close calls, and
    \* log.Fatalln ends the process without running them
    /\ open' = IF ex'.status = "ok"
               THEN open \ ({"con", "reader"} \cup rdr.nr.held)
               ELSE open \cup {"wtr"}
    /\ UNCHANGED <<args, fl, rdr, tableCreated, im, co, cm, xl>>

Next ==
    \/ MainFlags
    \/ MainConnect
    \/ BuildNewReader
    \/ BuildHeaders
    \/ BuildTypes
    \/ BuildCreate
    \/ MainExport

Spec == Init /\ [][Next]_vars

---------------------------------------------------------------------------
(* Claims about the run of main.                                           *)

StepOrder == <<"flags", "connect", "resolve", "header", "types", "create", "export">>

InSteps(name) == \E k \in 1..Len(steps) : steps[k] = name

\* the -h and -t lists as flags splits them
SuppliedNames ==
    IF args.h = <<>> THEN <<>>
    ELSE Split(RemoveAll(RemoveAll(args.h, " "), "'"), ",")
SuppliedTypes ==
    IF args.t = <<>> THEN <<>>
    ELSE Split(RemoveAll(ToLower(RemoveAll(args.t, " ")), "'"), ",")

\* C1: the steps of a run happen in the order flags, connect, source
\* resolution, header, types, table creation, export; the table is created
\* only once every column has a name and a type; no row reaches the
\* destination unless the table was created; a run that fails in a setup
\* step ends with no row exported.
C1_SetupOrder ==
    /\ steps = SubSeq(StepOrder, 1, Len(steps))
    /\ InSteps("create") =>
          /\ Len(rdr.fieldDefs) > 0
          /\ \A k \in 1..Len(rdr.fieldDefs) : rdr.fieldDefs[k].base \in Bases
    /\ ex.dest # <<>> => tableCreated
    /\ (pc \in {"fatal", "panic"} /\ ~InSteps("export")) =>
          (ex.dest = <<>> /\ ex.status = "idle")
    /\ (Len(steps) > 1 => (fl.err = NoErr /\ ~fl.panic))

\* a run that went through every step and exported every row
C1_Witness ==
    /\ pc = "done"
    /\ tableCreated
    /\ Len(ex.dest) = MaxRows
    /\ steps = StepOrder

\* the -h and -t lists are both given and differ in length
ListsMismatch ==
    /\ Len(SuppliedNames) > 0
    /\ Len(SuppliedTypes) > 0
    /\ Len(SuppliedNames) # Len(SuppliedTypes)

\* a supplied type list reaches Create only with one entry per field
TypesMatchAtCreate ==
    /\ (InSteps("create") /\ Len(SuppliedTypes) > 0) =>
          Len(SuppliedTypes) = Len(rdr.fieldDefs)
    /\ (pc = "create" /\ Len(fl.fieldTypes) > 0) =>
          Len(fl.fieldTypes) = Len(rdr.fieldDefs)

\* C7: a supplied type list that has not one entry per column is always
\* rejected with an error and never leads to a created table: with -h also
\* supplied and of another length flags returns an error and the run ends
\* there, before any connection or source step; with the names read from
\* the header row the run ends in buildReader before the table is created.
C7_TypeListLength ==
    /\ TypesMatchAtCreate
    /\ (steps # <<>> /\ ListsMismatch) =>
          /\ steps = <<"flags">>
          /\ pc = "fatal"
          /\ ~fl.panic
          /\ fl.err # NoErr

\* what holds of every run: a mismatched type list never reaches Create, and
\* with -h of another length the run ends in flags, with an error unless the
\* -q value is empty and flags panics before it compares the lengths
TypeListLengthButEmptyQuote ==
    /\ TypesMatchAtCreate
    /\ (steps # <<>> /\ ListsMismatch) =>
          /\ steps = <<"flags">>
          /\ IF Len(args.q) = 0
             THEN pc = "panic" /\ fl.panic
             ELSE pc = "fatal" /\ ~fl.panic /\ fl.err # NoErr

\* a -rows / -cols value that is exactly two integers S:E
WellFormedRange(s) ==
    LET p == Split(s, ":")
    IN  Len(p) = 2 /\ ParseInt(p[1]).err = NoErr /\ ParseInt(p[2]).err = NoErr

MalformedConfig ==
    \/ ~WellFormedRange(args.rows)
    \/ ~WellFormedRange(args.cols)
    \/ ToLower(args.sType) \notin types
    \/ ToLower(args.c) \notin ctypes
    \/ ToLower(args.i) \notin ctypes

\* C8: whenever flags returns for a command line with a malformed -rows or
\* -cols value, an unrecognized -type or an invalid -c or -i, it returns an
\* error, and main then takes no step against the source or the destination.
C8_ConfigRejected ==
    (steps # <<>> /\ ~fl.panic /\ MalformedConfig) =>
        (fl.err # NoErr /\ pc = "fatal" /\ steps = <<"flags">>)

\* the names of the schema, in column order
SchemaNames == [k \in 1..Len(rdr.fieldDefs) |-> rdr.fieldDefs[k].name]

\* C11: when the names are read from the header row, after the header step
\* no column name is a reserved word compared case-insensitively; a name is
\* the header (camel-cased under -c Y) with "1" appended exactly when that
\* is reserved, in the letter case the header has apart from the camel-case
\* transform; the key is the final name of the first column and so one of
\* the schema's names.
C11_ReservedNames ==
    rdr.header # <<>> =>
        /\ Len(SchemaNames) = Len(rdr.header)
        /\ \A k \in 1..Len(SchemaNames) :
              LET base == IF fl.camel THEN toCamel(rdr.header[k]).name
                          ELSE rdr.header[k]
              IN  /\ ToLower(SchemaNames[k]) \notin reserved
                  /\ SchemaNames[k] =
                        IF ToLower(base) \in reserved THEN base \o <<"1">> ELSE base
        /\ rdr.key = SchemaNames[1]
        /\ \E k \in 1..Len(SchemaNames) : SchemaNames[k] = rdr.key

\* the header row Index, a without -c Y: the first column and the key are
\* Index1
C11_Witness ==
    /\ pc = "create"
    /\ ~fl.camel
    /\ rdr.header = <<nIndex, nA>>
    /\ SchemaNames = <<nIndex1, nA>>
    /\ rdr.key = nIndex1

\* C12: when buildReader calls Create, every column of the schema has a
\* non-empty name that no other column has, whether the names were read from
\* the header row or supplied with -h.
C12_UniqueNames ==
    pc = "create" =>
        /\ \A k \in 1..Len(SchemaNames) : SchemaNames[k] # <<>>
        /\ \A j, k \in 1..Len(SchemaNames) :
              j # k => SchemaNames[j] # SchemaNames[k]

\* C13: when buildReader calls Create, the schema has one column per cell
\* of the source's rows; a -h list of another length does not get that far.
C13_WidthMatches ==
    pc = "create" => Len(rdr.fieldDefs) = rdr.width

\* C14: NewReader fetches the source over HTTP exactly when the source is a
\* URL and opens every other source as a local path; a failed fetch or open
\* gives an error and no reader.
C14_HttpIffURL ==
    InSteps("resolve") =>
        /\ rdr.nr.route = "http" <=> IsHttpURL(args.s)
        /\ rdr.nr.route = "file" <=> ~IsHttpURL(args.s)
        /\ ~rdr.nr.ok => (rdr.nr.err # NoErr /\ rdr.nr.kind = "none" /\ pc = "fatal")

\* the directory a path lies in
DirOf(path) ==
    LET sl == LastIndex(path, "/")
    IN  IF sl = 0 THEN <<".">>
        ELSE IF sl = 1 THEN <<"/">>
        ELSE SubSeq(path, 1, sl - 1)

\* the file next to path with the extension xlsx
SiblingXlsx(path) ==
    LET sl  == LastIndex(path, "/")
        dot == LastIndex(path, ".")
    IN  IF dot > sl + 1 THEN SubSeq(path, 1, dot - 1) \o dotXlsx
        ELSE path \o dotXlsx

\* C15: a reader of an xls source is a reader of the converted workbook:
\* the converter was run on the given path (for a fetched source, on the
\* temporary file the body was written to) with the directory of that path
\* as its output directory, and the workbook opened is the sibling .xlsx of
\* that path.
C15_XlsConverted ==
    (InSteps("resolve") /\ fl.sType = <<"x","l","s">> /\ rdr.nr.ok) =>
        /\ rdr.nr.converted
        /\ rdr.nr.given = IF rdr.nr.route = "http" THEN tmpXls ELSE args.s
        /\ rdr.nr.outdir = DirOf(rdr.nr.given)
        /\ rdr.nr.opened = SiblingXlsx(rdr.nr.given)

\* C17: flags returns an error for every -q value that is not one
\* character: no crash for the empty value, and for a longer value the
\* error "-q option is a single character" when nothing else is wrong with
\* the command line.
C17_QuoteRejected ==
    (steps # <<>> /\ Len(args.q) # 1) =>
        /\ ~fl.panic
        /\ fl.err # NoErr
        /\ pc = "fatal"
        /\ (Len(args.q) > 1 /\ flags([args EXCEPT !.q = DefaultArgs.q]).err = NoErr) =>
              fl.err = "-q option is a single character"

\* C18: when the process ends, on success and on every failure, nothing it
\* opened is still open: not the connection, the reader or the writer of
\* main, not the file handle of newFile, the temporary file or the response
\* body of newHttp.
C18_AllReleased ==
    pc \in {"done", "fatal", "panic"} => open = {}

---------------------------------------------------------------------------
(* Export on its own: every batch size against every source length.        *)

AfterVals == (0..(MaxRows + 1)) \cup {BatchSize, LegacyBatchSize}

IdleRun ==
    /\ pc = "export"
    /\ args = DefaultArgs
    /\ fl = flagsZero(DefaultArgs)
    /\ steps = <<>>
    /\ rdr = NoReader
    /\ tableCreated = TRUE
    /\ open = {}

InitExport ==
    /\ IdleRun
    /\ cm = CamelIdle
    /\ xl = XlIdle
    /\ \E n \in 0..MaxRows, after \in AfterVals, failAt \in 0..2 :
          ex = ExportStart(RowIds(n), after, failAt)
    /\ im = ImputeIdle
    /\ co = CoerceIdle

ExportRead ==
    /\ ExCanRead(ex)
    /\ ex' = ExRead(ex)
    /\ UNCHANGED <<pc, args, fl, steps, rdr, tableCreated, im, co, open, cm, xl>>

ExportFlush ==
    /\ ExCanFlush(ex)
    /\ ex' = ExFlush(ex)
    /\ UNCHANGED <<pc, args, fl, steps, rdr, tableCreated, im, co, open, cm, xl>>

ExportFinish ==
    /\ ExCanFinish(ex)
    /\ ex' = ExFinish(ex)
    /\ UNCHANGED <<pc, args, fl, steps, rdr, tableCreated, im, co, open, cm, xl>>

NextExport ==
    \/ ExportRead
    \/ ExportFlush
    \/ ExportFinish

SpecExport == InitExport /\ [][NextExport]_vars

RECURSIVE Flatten(_)
Flatten(bs) == IF bs = <<>> THEN <<>> ELSE Head(bs).batch \o Flatten(Tail(bs))

\* C2: an export that ends without a failed write has written exactly the
\* rows of the source, in their order, for every batch size (1, N, N+1, the
\* 1000 and the 0 main passes); a batch is written only when it is full or
\* the source is exhausted, and the destination holds the batches in the
\* order they were built.
C2_BatchedExport ==
    /\ ex.dest = SubSeq(ex.rows, 1, Len(ex.dest))
    /\ ex.dest = Flatten(ex.flushes)
    /\ ex.status = "ok" => ex.dest = ex.rows
    /\ \A k \in 1..Len(ex.flushes) :
          IF ex.flushes[k].atEnd
          THEN k = Len(ex.flushes) /\ ex.pos = Len(ex.rows)
          ELSE ex.after > 0 /\ Len(ex.flushes[k].batch) = ex.after

\* a finished export of full batches and one partial final batch
C2_Witness ==
    /\ ex.status = "ok"
    /\ Len(ex.rows) = MaxRows
    /\ Len(ex.flushes) >= 2
    /\ ex.flushes[Len(ex.flushes)].atEnd
    /\ ex.dest = ex.rows

---------------------------------------------------------------------------
(* Type inference on its own: every column of cell counts.                 *)

InitImpute ==
    /\ IdleRun
    /\ cm = CamelIdle
    /\ xl = XlIdle
    /\ ex = ExportIdle
    /\ \/ \E c \in BoundaryColumns :
             im = [col |-> c, base |-> "ChUnknown", missing |-> "unset"]
       \* the columns of at most MaxCells non-empty cells and one empty cell
       \/ \E e \in 0..1, di \in 0..MaxCells :
          \E d \in 0..(MaxCells - di) :
          \E i \in 0..(MaxCells - di - d) :
          \E f \in 0..(MaxCells - di - d - i) :
          \E s \in 0..(MaxCells - di - d - i - f) :
             im = [col |-> Column(e, di, d, i, f, s), base |-> "ChUnknown",
                   missing |-> "unset"]
    /\ co = CoerceIdle

ImputeColumn ==
    /\ im.base = "ChUnknown"
    /\ LET b == findType(im.col, imputeTol.num, imputeTol.den)
       IN  im' = [im EXCEPT !.base = b, !.missing = ImputeSentinel(b)]
    /\ UNCHANGED <<pc, args, fl, steps, rdr, tableCreated, ex, co, open, cm, xl>>

NextImpute == ImputeColumn

SpecImpute == InitImpute /\ [][NextImpute]_vars

Reaches(k, n) == 20 * k >= 19 * n

\* C5: with n > 0 non-empty values, a column gets a candidate type only if
\* that candidate's parsed fraction k/n is at least 0.95, and String exactly
\* if no candidate's fraction is; so 19 integers of 20 values (and fewer
\* dates) make Int64, and 949 of 1000 make String.
C5_Threshold ==
    (im.base \in Bases /\ NonEmpty(im.col) > 0) =>
        LET n == NonEmpty(im.col)
        IN  /\ im.base = "ChDate"  => Reaches(Dates(im.col), n)
            /\ im.base = "ChInt"   => Reaches(Ints(im.col), n)
            /\ im.base = "ChFloat" => Reaches(Floats(im.col), n)
            /\ im.base = "ChString" <=>
                  /\ ~Reaches(Dates(im.col), n)
                  /\ ~Reaches(Ints(im.col), n)
                  /\ ~Reaches(Floats(im.col), n)

\* exactly 95% of the 20 values are integers, fewer are dates: Int64
C5_Witness ==
    /\ NonEmpty(im.col) = 20
    /\ Ints(im.col) = 19
    /\ Dates(im.col) < 19
    /\ im.base = "ChInt"

\* C6: the candidates are tried in the order Date, Int64, Float64: a column
\* that reaches the threshold as Date is Date whatever else it reaches, one
\* that reaches it as Int64 and not as Date is Int64, and Float64 is given
\* only when neither Date nor Int64 reaches it.
C6_Precedence ==
    (im.base \in Bases /\ NonEmpty(im.col) > 0) =>
        LET n == NonEmpty(im.col)
        IN  /\ Reaches(Dates(im.col), n) => im.base = "ChDate"
            /\ (~Reaches(Dates(im.col), n) /\ Reaches(Ints(im.col), n)) =>
                  im.base = "ChInt"
            /\ im.base = "ChFloat" =>
                  (~Reaches(Dates(im.col), n) /\ ~Reaches(Ints(im.col), n))

\* every value parses as a date and as an integer: Date
C6_Witness ==
    /\ im.col.di = MaxCells
    /\ NonEmpty(im.col) = im.col.di
    /\ im.base = "ChDate"

---------------------------------------------------------------------------
(* Coercion on its own: every row of two cells against every schema of     *)
(* two columns, typed with -t or by the inference.                         *)

InitCoerce ==
    /\ IdleRun
    /\ cm = CamelIdle
    /\ xl = XlIdle
    /\ ex = ExportIdle
    /\ im = ImputeIdle
    /\ \E f1 \in FieldVals, f2 \in FieldVals, c1 \in CellKinds, c2 \in CellKinds :
          co = [schema |-> <<f1, f2>>, row |-> <<c1, c2>>, out |-> <<>>, done |-> FALSE]

CoerceStep ==
    /\ ~co.done
    /\ co.schema # <<>>
    /\ co' = [co EXCEPT !.out = CoerceRow(co.row, co.schema), !.done = TRUE]
    /\ UNCHANGED <<pc, args, fl, steps, rdr, tableCreated, ex, im, open, cm, xl>>

NextCoerce == CoerceStep

SpecCoerce == InitCoerce /\ [][NextCoerce]_vars

\* the documented fill-in value of each type
DocumentedSentinel(base) ==
    CASE base = "ChFloat"  -> "MaxFloat64"
      [] base = "ChInt"    -> "9223372036854775807"
      [] base = "ChDate"   -> "1970-01-01"
      [] base = "ChString" -> "!"

\* C4: a coerced row has a value for every cell of the row, and a cell that
\* is empty or does not parse as its column's type becomes the documented
\* sentinel of that type (Float64 the maximum Float64, Int64
\* 9223372036854775807, Date 1970-01-01, String "!"), whether the column was
\* typed with -t or by the inference.
C4_Sentinels ==
    co.done =>
        /\ Len(co.out) = Len(co.row)
        /\ \A k \in 1..Len(co.row) :
              /\ co.schema[k].missing = DocumentedSentinel(co.schema[k].base)
              /\ (co.row[k] = "E" \/ ~Parses(co.row[k], co.schema[k].base)) =>
                    co.out[k] = DocumentedSentinel(co.schema[k].base)

\* an empty cell in a -t Int64 column and an unparsable one in an inferred
\* Date column, both filled in
C4_Witness ==
    /\ co.done
    /\ co.schema[1].origin = "supplied" /\ co.schema[1].base = "ChInt"
    /\ co.row[1] = "E" /\ co.out[1] = "9223372036854775807"
    /\ co.schema[2].origin = "inferred" /\ co.schema[2].base = "ChDate"
    /\ co.row[2] = "S" /\ co.out[2] = "1970-01-01"

---------------------------------------------------------------------------
(* The spreadsheet reader on its own: every range and skip against the     *)
(* same range started skip rows later.                                     *)

hXY == <<"x",",","y">>

InitXl ==
    /\ IdleRun
    /\ ex = ExportIdle
    /\ im = ImputeIdle
    /\ co = CoerceIdle
    /\ cm = CamelIdle
    /\ \E S \in 0..(MaxSheetRows - 1), E \in 0..MaxSheetRows, k \in 0..MaxSkip,
          cS \in 0..(MaxSheetCols - 1), cE \in 0..MaxSheetCols, h \in {<<>>, hXY} :
          LET a == [DefaultArgs EXCEPT !.sType = sXLSX, !.h = h,
                                       !.cols = RangeArg(cS, cE)]
          IN  xl = [XlIdle EXCEPT
                       !.a = [a EXCEPT !.rows = RangeArg(S, E), !.skip = k],
                       !.b = [a EXCEPT !.rows = RangeArg(S + k, E), !.skip = 0]]

XlRead ==
    /\ ~xl.done
    /\ xl' = [xl EXCEPT !.rowsA = XlData(xl.a), !.rowsB = XlData(xl.b),
                        !.done = TRUE]
    /\ UNCHANGED <<pc, args, fl, steps, rdr, tableCreated, ex, im, co, open, cm>>

NextXl == XlRead

SpecXl == InitXl /\ [][NextXl]_vars

\* C16: reading -rows S:E with -skip k delivers the rows that reading
\* -rows (S+k):E with -skip 0 delivers; the first cell delivered is the one
\* in the start column of the first row of the range after the skipped
\* rows (the header row too when the names are read from the sheet); an end
\* row of 0 takes the rows to the last row of the sheet and an end column of
\* 0 the cells to its last column.
C16_SkipInsideRange ==
    xl.done =>
        LET area == flags(xl.a).xlArea
            skip == readerSkip(flags(xl.a).headers, xl.a.skip)
        IN  /\ xl.rowsA = xl.rowsB
            /\ (xl.rowsA # <<>> /\ xl.rowsA[1] # <<>>) =>
                  xl.rowsA[1][1] = <<area[1] + skip, area[3]>>
            /\ (area[2] = 0 /\ area[1] + skip <= MaxSheetRows - 1) =>
                  Len(xl.rowsA) = MaxSheetRows - (area[1] + skip)
            /\ area[4] = 0 =>
                  \A i \in 1..Len(xl.rowsA) :
                      Len(xl.rowsA[i]) = MaxSheetCols - area[3]

\* -rows 4:0 -cols 2:0 -skip 1 -h x,y and -rows 5:0 -cols 2:0 -h x,y both
\* start at column 2 of sheet row 5
C16_Witness ==
    /\ xl.done
    /\ xl.a.h = hXY
    /\ xl.a.rows = <<"4",":","0">> /\ xl.a.cols = <<"2",":","0">> /\ xl.a.skip = 1
    /\ xl.b.rows = <<"5",":","0">> /\ xl.b.cols = <<"2",":","0">> /\ xl.b.skip = 0
    /\ xl.rowsA = xl.rowsB
    /\ xl.rowsA[1][1] = <<5, 2>>

---------------------------------------------------------------------------
(* toCamel on its own: every name of lower-case and upper-case letters,     *)
(* spaces, dots and underscores.                                            *)

CamelChars == {"a", "B", "_", ".", " "}
CamelNames == UNION {[1..n -> CamelChars] : n \in 0..MaxNameLen}

InitCamel ==
    /\ IdleRun
    /\ ex = ExportIdle
    /\ im = ImputeIdle
    /\ co = CoerceIdle
    /\ xl = XlIdle
    /\ \E n \in CamelNames : cm = [CamelIdle EXCEPT !.snake = n]

CamelApply ==
    /\ ~cm.done
    /\ LET r == toCamel(cm.snake)
       IN  cm' = [cm EXCEPT !.name = r.name, !.panic = r.panic, !.done = TRUE]
    /\ UNCHANGED <<pc, args, fl, steps, rdr, tableCreated, ex, im, co, open, xl>>

NextCamel == CamelApply

SpecCamel == InitCamel /\ [][NextCamel]_vars

IsSeparator(c) == c \in {" ", ".", "_"}

\* the name without its separators, a letter that follows a separator in
\* upper case and every other letter in lower case
CamelCased(snake) ==
    LET keep == {k \in 1..Len(snake) : ~IsSeparator(snake[k])}
        \* the position of the n-th character that is kept
        at(n) == CHOOSE k \in keep : Cardinality({j \in keep : j <= k}) = n
    IN  [n \in 1..Cardinality(keep) |->
            IF at(n) > 1 /\ IsSeparator(snake[at(n) - 1])
            THEN ToUpperChar(snake[at(n)])
            ELSE ToLowerChar(snake[at(n)])]

\* toCamel returns for every name that does not end in a separator
CamelPanicsOnlyAtEnd ==
    cm.done =>
        /\ cm.panic <=> (cm.snake # <<>> /\ IsSeparator(cm.snake[Len(cm.snake)]))
        /\ ~cm.panic => cm.name = CamelCased(cm.snake)

\* C19: toCamel returns for every name, without a runtime error, the name
\* with no space, '.' or '_', each letter that followed a separator in upper
\* case and every other letter in lower case.
C19_ToCamelTotal ==
    cm.done =>
        /\ ~cm.panic
        /\ \A k \in 1..Len(cm.name) : ~IsSeparator(cm.name[k])
        /\ cm.name = CamelCased(cm.snake)

====
